---- MODULE Spec2Model ----
(***************************************************************************)
(* Model of the resilient request layer of oracle-world:                   *)
(*   - QueueManager   (scripts/services/queue-manager.js): the serializing *)
(*     request queue with per-provider rate-limit windows;                 *)
(*   - BaseAPIClient._makeRequest (scripts/api/api-client.js): the         *)
(*     per-call executor with classification, retry, backoff and timeout.  *)
(* SpecQueue runs the queue manager, SpecRequest one _makeRequest call.    *)
(***************************************************************************)
EXTENDS Integers, Sequences, FiniteSets, TLC

\* ------------------------------------------------------------------ bounds
MaxEntries == 2      \* enqueue calls in one behaviour
MaxTicks == 3        \* clock steps in one behaviour
MaxExec == 2         \* execCount saturates here

\* --------------------------------------------------------------- constants
WindowMs == 60000
TickMs == WindowMs \div 2
MaxTime == MaxTicks * TickMs

Entries == 1..MaxEntries
Providers == {"openai", "anthropic"}

\* ERROR_TYPES.RATE_LIMIT
RATE_LIMIT == "RATE_LIMIT"
AUTH_ERROR == "AUTH_ERROR"
NETWORK_ERROR == "NETWORK_ERROR"
VALIDATION_ERROR == "VALIDATION_ERROR"
GENERIC_ERROR == "GENERIC_ERROR"
\* The five kinds a caller may observe.
ErrorKinds == {RATE_LIMIT, AUTH_ERROR, NETWORK_ERROR, VALIDATION_ERROR, GENERIC_ERROR}

\* Values request.execute() may reject with: an error carrying a type, an
\* object without a type property (a plain Error, a string), and null or
\* undefined (a bare `throw undefined` / Promise.reject()).
NoType == "NoType"
Nullish == "Nullish"
OpFailures == {RATE_LIMIT, AUTH_ERROR, NoType, Nullish}

VARIABLES
  queue,        \* this.queue: sequence of entries, head first
  processing,   \* this.processing
  rateLimits,   \* this.rateLimits: provider -> [present, count, resetTime]
  now,          \* Date.now()
  active,       \* _processQueue invocations suspended at an await
  submitted,    \* number of enqueue calls so far; entries are numbered in call order
  provider,     \* entry -> item.request.provider
  status,       \* entry -> "unsubmitted" | "pending" | "fulfilled" | "rejected"
  settleCount,  \* entry -> number of calls of item.resolve / item.reject
  rejectedWith, \* entry -> the value item.reject was called with
  outcome,      \* entry -> how its operation last settled: "none", "ok" or a failure
  execCount     \* entry -> number of calls of item.request.execute (saturating)

qvars == <<queue, processing, rateLimits, now, active, submitted, provider,
           status, settleCount, rejectedWith, outcome, execCount>>

VARIABLES
  rpc,          \* _makeRequest: "idle" | "fetch" | "sleep" | "returned" | "thrown"
  retries,      \* options.retries
  attempt,      \* the loop variable
  lastError,    \* the local lastError
  timers,       \* attempts whose setTimeout(abort) is armed and not cleared
  calls,        \* number of fetch calls issued
  delays,       \* number of _sleep calls awaited
  lastDelay,    \* what the timer of the last _sleep call waits, in ms
  last,         \* how the latest attempt ended
  seen,         \* the ways the attempts so far ended
  thrown,       \* the value _makeRequest threw
  hint,         \* the retry-after header of the latest response
  validation    \* the _validateParams call of generateImage: [params, threw, missing]

rvars == <<rpc, retries, attempt, lastError, timers, calls, delays, lastDelay,
           last, seen, thrown, hint, validation>>

\* Single calls of the helper methods, each with the call before it.
VARIABLES
  backoffCall,  \* the latest _getExponentialBackoff call: [attempt, jitter, delay]
  backoffPrev,  \* the call before it
  updateCall,   \* the latest _updateRateLimit call: [old, at, new]
  lengthRead    \* what the latest getQueueLength() call returned

fvars == <<backoffCall, backoffPrev, updateCall, lengthRead>>

vars == <<qvars, rvars, fvars>>

NoLimit == [present |-> FALSE, count |-> 0, resetTime |-> 0]

Max(a, b) == IF a >= b THEN a ELSE b
Min(a, b) == IF a <= b THEN a ELSE b

\* error.type === ERROR_TYPES.RATE_LIMIT; reading .type of null or undefined
\* throws a TypeError instead of returning.
ReadingTypeThrows(error) == error = Nullish
\* (variant: the comparison never matches)
IsRateLimitErrorNever(error) == FALSE
IsRateLimitError(error) == error = RATE_LIMIT

\* (variant: the window is not waited out)
CheckRateLimitNoWait(limit, t) == t
\* _checkRateLimit: the time at which its promise resolves.
CheckRateLimit(limit, t) ==
  IF limit.present /\ t < limit.resetTime
  THEN t + (limit.resetTime - t)
  ELSE t

\* _waitForRateLimit: the time at which its promise resolves.
WaitForRateLimit(limit, t) ==
  IF limit.present
  THEN t + Max(0, limit.resetTime - t)
  ELSE t

\* (variant: the window is reopened on every success)
UpdateRateLimitAlwaysFresh(old, t) ==
  [present |-> TRUE, count |-> 1, resetTime |-> t + WindowMs]
\* (variant: resetTime is set to now, without the 60 s)
UpdateRateLimitNoWindow(old, t) == [present |-> TRUE, count |-> 1, resetTime |-> t]
\* (variant: nothing is recorded)
UpdateRateLimitKeeps(old, t) == old
\* _updateRateLimit: the provider's new RateLimitState.
UpdateRateLimit(old, t) ==
  LET limit == IF old.present THEN old
               ELSE [present |-> TRUE, count |-> 0, resetTime |-> t + WindowMs]
  IN IF t >= limit.resetTime
     THEN [present |-> TRUE, count |-> 1, resetTime |-> t + WindowMs]
     ELSE [limit EXCEPT !.count = @ + 1]

\* (variant: the guard does not read this.processing)
ProcessQueueReturnsIgnoringFlag(q, busy) == Len(q) = 0
\* The guard of _processQueue.
ProcessQueueReturns(q, busy) == busy \/ Len(q) = 0

\* (variant: this.processing is not set when the head is taken)
ProcessQueueLeavesFlag(q, busy, rest, rl, prov) ==
  IF ProcessQueueReturns(q, busy)
  THEN /\ queue' = q
       /\ processing' = busy
       /\ active' = rest
  ELSE /\ processing' = busy
       /\ queue' = Tail(q)
       /\ active' = rest \cup
            {[item |-> Head(q), pc |-> "checkRateLimit",
              wakeAt |-> CheckRateLimit(rl[prov[Head(q)]], now)]}

\* (variant: the head is read with queue[0] and never shifted off)
ProcessQueuePeek(q, busy, rest, rl, prov) ==
  IF ProcessQueueReturns(q, busy)
  THEN /\ queue' = q
       /\ processing' = busy
       /\ active' = rest
  ELSE /\ processing' = TRUE
       /\ queue' = q
       /\ active' = rest \cup
            {[item |-> Head(q), pc |-> "checkRateLimit",
              wakeAt |-> CheckRateLimit(rl[prov[Head(q)]], now)]}

\* _processQueue called on queue q with this.processing = busy, the other
\* suspended invocations being rest: either it returns at once, or it takes
\* the head and suspends in _checkRateLimit.
ProcessQueue(q, busy, rest, rl, prov) ==
  IF ProcessQueueReturns(q, busy)
  THEN /\ queue' = q
       /\ processing' = busy
       /\ active' = rest
  ELSE /\ processing' = TRUE
       /\ queue' = Tail(q)
       /\ active' = rest \cup
            {[item |-> Head(q), pc |-> "checkRateLimit",
              wakeAt |-> CheckRateLimit(rl[prov[Head(q)]], now)]}

\* (variant: one state is kept for all providers)
SetRateLimitForAll(rl, p, limit) == [q \in DOMAIN rl |-> limit]
\* this.rateLimits.set(provider, limit)
SetRateLimit(rl, p, limit) == [rl EXCEPT ![p] = limit]

\* (variant: the item is pushed instead of unshifted)
RequeueAtTail(item, q) == Append(q, item)
\* this.queue.unshift(item)
Requeue(item, q) == <<item>> \o q

InitQueue ==
  /\ queue = << >>
  /\ processing = FALSE
  /\ rateLimits = [p \in Providers |-> NoLimit]
  /\ now = 0
  /\ active = {}
  /\ submitted = 0
  /\ provider = [e \in Entries |-> "openai"]
  /\ status = [e \in Entries |-> "unsubmitted"]
  /\ settleCount = [e \in Entries |-> 0]
  /\ rejectedWith = [e \in Entries |-> "none"]
  /\ outcome = [e \in Entries |-> "none"]
  /\ execCount = [e \in Entries |-> 0]

\* enqueue(request): push the entry, then _processQueue().
Enqueue(p) ==
  /\ submitted < MaxEntries
  /\ LET e == submitted + 1
         prov == [provider EXCEPT ![e] = p]
     IN /\ submitted' = e
        /\ provider' = prov
        /\ status' = [status EXCEPT ![e] = "pending"]
        /\ ProcessQueue(Append(queue, e), processing, active, rateLimits, prov)
  /\ UNCHANGED <<fvars, rvars, rateLimits, now, settleCount, rejectedWith, outcome, execCount>>

\* The wait of _checkRateLimit is over: item.request.execute() is called.
Execute(inv) ==
  /\ inv.pc = "checkRateLimit"
  /\ now >= inv.wakeAt
  /\ active' = (active \ {inv}) \cup {[inv EXCEPT !.pc = "execute"]}
  /\ execCount' = [execCount EXCEPT ![inv.item] = Min(@ + 1, MaxExec)]
  /\ UNCHANGED <<fvars, rvars, queue, processing, rateLimits, now, submitted, provider,
                 status, settleCount, rejectedWith, outcome>>

\* The operation fulfils: _updateRateLimit, item.resolve, finally.
ExecuteSucceeds(inv) ==
  /\ inv.pc = "execute"
  /\ LET p == provider[inv.item]
         rl == SetRateLimit(rateLimits, p, UpdateRateLimit(rateLimits[p], now))
     IN /\ rateLimits' = rl
        /\ outcome' = [outcome EXCEPT ![inv.item] = "ok"]
        /\ status' = [status EXCEPT ![inv.item] =
                        IF @ = "pending" THEN "fulfilled" ELSE @]
        /\ settleCount' = [settleCount EXCEPT ![inv.item] = @ + 1]
        /\ ProcessQueue(queue, FALSE, active \ {inv}, rl, provider)
  /\ UNCHANGED <<fvars, rvars, now, submitted, provider, rejectedWith, execCount>>

\* The operation rejects with error: the catch block, then finally unless the
\* invocation suspends in _waitForRateLimit.
ExecuteFails(inv, error) ==
  /\ inv.pc = "execute"
  /\ outcome' = [outcome EXCEPT ![inv.item] = error]
  /\ IF ReadingTypeThrows(error)
     THEN \* _isRateLimitError throws inside catch: finally still runs
          /\ ProcessQueue(queue, FALSE, active \ {inv}, rateLimits, provider)
          /\ UNCHANGED <<status, settleCount, rejectedWith>>
     ELSE IF IsRateLimitError(error)
     THEN /\ queue' = Requeue(inv.item, queue)
          /\ active' = (active \ {inv}) \cup
               {[inv EXCEPT !.pc = "waitForRateLimit",
                            !.wakeAt = WaitForRateLimit(rateLimits[provider[inv.item]], now)]}
          /\ UNCHANGED <<processing, status, settleCount, rejectedWith>>
     ELSE /\ status' = [status EXCEPT ![inv.item] =
                          IF @ = "pending" THEN "rejected" ELSE @]
          /\ settleCount' = [settleCount EXCEPT ![inv.item] = @ + 1]
          /\ rejectedWith' = [rejectedWith EXCEPT ![inv.item] =
                          IF status[inv.item] = "pending" THEN error ELSE @]
          /\ ProcessQueue(queue, FALSE, active \ {inv}, rateLimits, provider)
  /\ UNCHANGED <<fvars, rvars, rateLimits, now, submitted, provider, execCount>>

\* The wait of _waitForRateLimit is over: finally.
WaitDone(inv) ==
  /\ inv.pc = "waitForRateLimit"
  /\ now >= inv.wakeAt
  /\ ProcessQueue(queue, FALSE, active \ {inv}, rateLimits, provider)
  /\ UNCHANGED <<fvars, rvars, rateLimits, now, submitted, provider, status, settleCount,
                 rejectedWith, outcome, execCount>>

\* The clock advances.
Tick ==
  /\ now + TickMs <= MaxTime
  /\ now' = now + TickMs
  /\ UNCHANGED <<fvars, rvars, queue, processing, rateLimits, active, submitted, provider,
                 status, settleCount, rejectedWith, outcome, execCount>>

\* getQueueLength(): a read of this.queue.length
GetQueueLength == Len(queue)

\* getQueueLength() is called and returns.
GetQueueLengthCall ==
  /\ lengthRead' = GetQueueLength
  /\ UNCHANGED <<qvars, rvars, backoffCall, backoffPrev, updateCall>>

NextQueue ==
  \/ \E p \in Providers : Enqueue(p)
  \/ \E inv \in active : Execute(inv)
  \/ \E inv \in active : ExecuteSucceeds(inv)
  \/ \E inv \in active, error \in OpFailures : ExecuteFails(inv, error)
  \/ \E inv \in active : WaitDone(inv)
  \/ Tick

\* The manager with a caller that also reads the length.
NextQueueRead ==
  \/ NextQueue
  \/ GetQueueLengthCall

\* ------------------------------------------------------ QueueManager claims
Settled(e) == status[e] \in {"fulfilled", "rejected"}
InQueue(e) == \E i \in 1..Len(queue) : queue[i] = e
Executing == {inv \in active : inv.pc = "execute"}

\* C1: at every instant at most one entry's operation has been started and
\* has not yet settled, whatever the providers of the entries.
C1_OneOperationAtATime == Cardinality(Executing) <= 1

\* An operation is pending while an entry of another provider waits in the queue.
C1_Witness ==
  \E inv \in Executing :
    /\ Len(queue) > 0
    /\ provider[Head(queue)] # provider[inv.item]

\* C2: an entry submitted later is never started before every entry
\* submitted earlier has been fulfilled or rejected.
C2_StartedOnlyAfterEarlierSettled ==
  \A a, b \in Entries : (a < b /\ execCount[b] > 0) => Settled(a)

\* C3: the caller of an entry is settled at most once, and a settled entry is
\* neither in the queue nor handled by any _processQueue invocation again.
C3_SettledOnceAndGone ==
  \A e \in Entries :
    /\ settleCount[e] <= 1
    /\ Settled(e) <=> settleCount[e] = 1
    /\ Settled(e) => /\ ~InQueue(e)
                     /\ \A inv \in active : inv.item # e

\* An entry was fulfilled on its second execution while another was rejected.
C3_Witness ==
  \E e, f \in Entries :
    /\ status[e] = "fulfilled" /\ execCount[e] >= 2
    /\ status[f] = "rejected"

\* C4: no caller is rejected with RATE_LIMIT; an entry whose operation last
\* failed with RATE_LIMIT stays unsettled and is either back at the head of
\* the queue while its invocation waits, or taken up again by the next one.
C4_RateLimitRequeuedNotRejected ==
  \A e \in Entries :
    /\ rejectedWith[e] # RATE_LIMIT
    /\ outcome[e] = RATE_LIMIT =>
         /\ status[e] = "pending"
         /\ \/ /\ Len(queue) > 0 /\ Head(queue) = e
               /\ \E inv \in active : inv.item = e /\ inv.pc = "waitForRateLimit"
            \/ \E inv \in active :
                 inv.item = e /\ inv.pc \in {"checkRateLimit", "execute"}

\* An entry is executing again after a RATE_LIMIT failure, another entry waiting.
C4_Witness ==
  \E inv \in Executing :
    /\ outcome[inv.item] = RATE_LIMIT
    /\ execCount[inv.item] >= 2
    /\ Len(queue) > 0

\* C5: an entry whose operation failed with anything but RATE_LIMIT is
\* rejected with exactly that value and is not in the queue.
C5_OtherFailureRejectsWithIt ==
  \A e \in Entries :
    outcome[e] \in OpFailures \ {RATE_LIMIT} =>
      /\ status[e] = "rejected"
      /\ rejectedWith[e] = outcome[e]
      /\ ~InQueue(e)

\* Kinds of QueueManager step, read off a pair of states.
EnqueueStep == submitted' = submitted + 1
SettleStep == \E e \in Entries : ~Settled(e) /\ Settled(e)'
RequeueStep ==
  \E inv \in active : inv.pc = "execute" /\
    \E w \in active' : w.item = inv.item /\ w.pc = "waitForRateLimit"
TakeStep == \E inv \in active' \ active : inv.pc = "checkRateLimit"

WindowOpen(p) == rateLimits[p].present /\ now < rateLimits[p].resetTime

\* C12: no operation is pending (hence none was started) while its provider's
\* window is open, and each recording of a success sets the provider's
\* resetTime to the time of the recording plus 60 s; so the next operation
\* for that provider starts no earlier than 60 s after the recording.
C12_NoStartInOpenWindow ==
  /\ [](\A inv \in Executing : ~WindowOpen(provider[inv.item]))
  /\ [][\A p \in Providers :
          rateLimits'[p] # rateLimits[p] =>
            /\ rateLimits'[p].present
            /\ rateLimits'[p].resetTime = now + WindowMs]_vars

\* The second entry runs for the provider of the first, fulfilled a window ago.
C12_Witness ==
  \E inv \in Executing :
    /\ inv.item = 2
    /\ provider[1] = provider[2]
    /\ status[1] = "fulfilled"
    /\ rateLimits[provider[2]].present
    /\ now >= rateLimits[provider[2]].resetTime

Handling(e, where) == \E inv \in active : inv.item = e /\ inv.pc = where

\* C13: an entry all of whose executions so far failed with RATE_LIMIT is
\* unsettled and no entry submitted after it has been started, however many
\* executions that was; and each time it is requeued it is executed again.
C13_RequeuedWithoutCeiling ==
  /\ [](\A e \in Entries :
          (execCount[e] > 0 /\ outcome[e] \in {"none", RATE_LIMIT}) =>
            /\ ~Settled(e)
            /\ \A b \in Entries : b > e => execCount[b] = 0)
  /\ \A e \in Entries :
       Handling(e, "waitForRateLimit") ~> Handling(e, "execute")

\* The first entry is requeued again after MaxExec executions, the second waits.
C13_Witness ==
  /\ Handling(1, "waitForRateLimit")
  /\ execCount[1] = MaxExec
  /\ status[2] = "pending" /\ execCount[2] = 0

Waiting == {inv \in active : inv.pc = "waitForRateLimit"}

\* C19: from the RATE_LIMIT failure of an entry's operation until that entry
\* is executed again no other operation is pending; while _waitForRateLimit
\* waits the entry is at the head of the queue and draining is suspended;
\* the wait ends only when the provider's recorded resetTime has passed, and
\* the invocation that follows takes the requeued entry.
C19_SuspendedUntilReset ==
  /\ [](\A e \in Entries :
          outcome[e] = RATE_LIMIT =>
            \A inv \in Executing :
              inv.item = e /\ ~WindowOpen(provider[e]))
  /\ [](\A inv \in Waiting :
          /\ active = {inv}
          /\ processing
          /\ queue # <<>> /\ Head(queue) = inv.item)
  /\ [][\A inv \in Waiting :
          inv \notin active' =>
            /\ ~WindowOpen(provider[inv.item])
            /\ \E n \in active' : n.item = inv.item /\ n.pc = "checkRateLimit"
            /\ \A n \in active' : n.pc = "checkRateLimit" => n.wakeAt <= now]_vars

\* After a success and an elapsed window the second entry failed with
\* RATE_LIMIT and is being executed again.
C19_Witness ==
  \E inv \in Executing :
    /\ inv.item = 2 /\ outcome[2] = RATE_LIMIT /\ execCount[2] = 2
    /\ status[1] = "fulfilled"
    /\ rateLimits[provider[2]].present

\* The operation of inv settles in this step.
OperationEnds(inv) == inv \in Executing /\ inv \notin active'
Succeeds(inv) == OperationEnds(inv) /\ outcome'[inv.item] = "ok"
Fails(inv) == OperationEnds(inv) /\ outcome'[inv.item] # "ok"

\* C21 as stated: whenever an operation settles, fulfilled or rejected, the
\* RateLimitState of its provider changes.
C21_UpdatedAfterEveryAttempt ==
  [][\A inv \in active :
       OperationEnds(inv) =>
         rateLimits'[provider[inv.item]] # rateLimits[provider[inv.item]]]_vars

\* C21 as amended: when an operation settles, the RateLimitState of its
\* provider changes if and only if the operation fulfilled; a rejected
\* operation, rate-limited or not, leaves count and window as they were.
C21_UpdatedAfterSuccessOnly ==
  [][\A inv \in active :
       OperationEnds(inv) =>
         (rateLimits'[provider[inv.item]] # rateLimits[provider[inv.item]]
            <=> outcome'[inv.item] = "ok")]_vars

\* One operation was rejected, another hit the rate limit, nothing recorded.
C21_Witness ==
  /\ outcome[1] = AUTH_ERROR /\ status[1] = "rejected"
  /\ outcome[2] = RATE_LIMIT
  /\ \A p \in Providers : rateLimits[p] = NoLimit

\* C22: in no step does the resetTime of a provider decrease; where it
\* changes, a new window has been opened (count 1, reset 60 s from now) and
\* the new resetTime is strictly greater than the one before.
C22_ResetTimeOnlyGrows ==
  [][\A p \in Providers :
       /\ rateLimits'[p].resetTime >= rateLimits[p].resetTime
       /\ rateLimits'[p].resetTime # rateLimits[p].resetTime =>
            /\ rateLimits'[p].resetTime > rateLimits[p].resetTime
            /\ rateLimits'[p].count = 1
            /\ rateLimits'[p].resetTime = now + WindowMs
            /\ \E inv \in active : Succeeds(inv) /\ provider[inv.item] = p]_vars

\* The second window of a provider, opened after the first had elapsed.
C22_Witness ==
  /\ provider[1] = provider[2]
  /\ status[1] = "fulfilled" /\ status[2] = "fulfilled"
  /\ rateLimits[provider[1]].resetTime > 2 * WindowMs

\* C23: whenever the queue is not empty the processing flag is set and an
\* invocation of _processQueue is handling an entry; and the step in which
\* an operation fulfils or is rejected takes the next head, if there is one.
C23_NeverIdleWithWork ==
  /\ [](queue # <<>> => (processing /\ active # {}))
  /\ [][\A inv \in active :
          (OperationEnds(inv) /\ outcome'[inv.item] # RATE_LIMIT /\ queue # <<>>) =>
            /\ queue' = Tail(queue)
            /\ processing'
            /\ \E n \in active' : n.item = Head(queue) /\ n.pc = "checkRateLimit"]_vars

\* The first entry was rejected and the second, which had been waiting, is
\* being handled.
C23_Witness ==
  /\ status[1] = "rejected" /\ outcome[1] = AUTH_ERROR
  /\ queue = <<>> /\ processing
  /\ \E inv \in active : inv.item = 2 /\ inv.pc = "checkRateLimit"

\* C25: in the step in which an operation fails with RATE_LIMIT its provider
\* has no RateLimitState or one whose window has elapsed, so the instant
\* _waitForRateLimit waits for is the present one; the wait is over as soon
\* as it has begun.
C25_RateLimitWaitIsZero ==
  /\ [][\A inv \in active :
          (OperationEnds(inv) /\ outcome'[inv.item] = RATE_LIMIT) =>
            /\ ~WindowOpen(provider[inv.item])
            /\ \A w \in active' : w.pc = "waitForRateLimit" => w.wakeAt = now]_vars
  /\ [](\A w \in Waiting : w.wakeAt <= now)

\* The second entry hit the rate limit while its provider has a recorded,
\* elapsed window.
C25_Witness ==
  \E w \in Waiting :
    /\ w.item = 2 /\ status[1] = "fulfilled"
    /\ rateLimits[provider[2]].present
    /\ w.wakeAt = now

\* C26: every RateLimitState the manager holds has count 1.
C26_CountIsOne ==
  \A p \in Providers : rateLimits[p].present => rateLimits[p].count = 1

\* Two successes for one provider, and its count is still 1.
C26_Witness ==
  /\ provider[1] = provider[2]
  /\ outcome[1] = "ok" /\ outcome[2] = "ok"
  /\ rateLimits[provider[1]].present
  /\ rateLimits[provider[1]].count = 1

Occurrences(e) == Cardinality({i \in 1..Len(queue) : queue[i] = e})
Handlers(e) ==
  Cardinality({inv \in active : inv.item = e /\ inv.pc \in {"checkRateLimit", "execute"}})

\* C27: every entry accepted and not yet settled is in exactly one place,
\* once in the queue or the one entry being handled.
C27_ExactlyOnePlace ==
  \A e \in Entries :
    status[e] = "pending" => Occurrences(e) + Handlers(e) = 1

\* An invocation waits for an instant beyond the last one the clock reaches.
BeyondHorizon == now = MaxTime /\ \E inv \in active : inv.wakeAt > now

\* C28: every entry accepted by enqueue is eventually fulfilled or rejected
\* (within the instants the clock reaches).
C28_EveryEntrySettles ==
  \A e \in Entries : (status[e] = "pending") ~> (Settled(e) \/ BeyondHorizon)

\* C30: a successful operation for provider P changes no RateLimitState but
\* P's; a failed operation and an enqueue change none; and a getQueueLength
\* call changes no state of the manager.
C30_RateLimitFrame ==
  [][/\ \A inv \in active :
          Succeeds(inv) =>
            \A p \in Providers \ {provider[inv.item]} : rateLimits'[p] = rateLimits[p]
     /\ \A inv \in active : Fails(inv) => rateLimits' = rateLimits
     /\ EnqueueStep => rateLimits' = rateLimits
     /\ lengthRead' # lengthRead =>
          (qvars' = qvars /\ lengthRead' = Len(queue))]_vars

\* Each provider holds its own window, opened at different instants, and the
\* length was read while an entry was waiting.
C30_Witness ==
  /\ provider[1] # provider[2]
  /\ rateLimits[provider[1]].present /\ rateLimits[provider[2]].present
  /\ rateLimits[provider[1]].resetTime < rateLimits[provider[2]].resetTime
  /\ lengthRead = 1

\* ------------------------------------------------ BaseAPIClient._makeRequest
MaxRetries == 3      \* largest options.retries tried (the default budget)

BaseDelay == 1000
MaxDelay == 30000
\* Math.random() * 1000 lies in [0, JitterSpan); sampled
JitterSpan == 1000
Jitters == {0, 500, 999}

\* response.headers.get('retry-after'): null when the header is absent,
\* otherwise its text, character by character.
NoHeader == [present |-> FALSE, text |-> <<>>]
Header(text) == [present |-> TRUE, text |-> text]
HttpDate ==
  <<"W", "e", "d", ",", " ", "2", "1", " ", "O", "c", "t", " ",
    "2", "0", "1", "5", " ", "0", "7", ":", "2", "8", ":", "0", "0",
    " ", "G", "M", "T">>
\* Absent, empty, delta-seconds (0, 1, 60) and an HTTP-date.
RetryAfterValues ==
  {NoHeader, Header(<<>>), Header(<<"0">>), Header(<<"1">>),
   Header(<<"6", "0">>), Header(HttpDate)}

\* `retryAfter ? ... : ...`: null and the empty string are falsy
Truthy(header) == header.present /\ header.text # <<>>

Digits == <<"0", "1", "2", "3", "4", "5", "6", "7", "8", "9">>
IsDigit(c) == \E d \in 1..10 : Digits[d] = c
DigitValue(c) == (CHOOSE d \in 1..10 : Digits[d] = c) - 1
\* The value no number equals, which arithmetic hands on.
NaN == -1
RECURSIVE ParseDigits(_, _)
ParseDigits(text, acc) ==
  IF text = <<>> \/ ~IsDigit(Head(text)) THEN acc
  ELSE ParseDigits(Tail(text), acc * 10 + DigitValue(Head(text)))
\* parseInt(text): the leading decimal digits, NaN when there are none
\* (the texts drawn carry no leading blank or sign).
ParseInt(text) ==
  IF text = <<>> \/ ~IsDigit(Head(text)) THEN NaN ELSE ParseDigits(text, 0)
\* x * k in floating point
Times(x, k) == IF x = NaN THEN NaN ELSE x * k
\* setTimeout(resolve, ms) takes a delay of NaN as 0
TimerDelay(ms) == IF ms = NaN THEN 0 ELSE ms

\* What fetch may resolve with: a status, the retry-after header, and what
\* response.json() does ("object": parses to an object, "null": parses to
\* null, "invalid": rejects with a SyntaxError).
Responses ==
  [status : {200, 500}, retryAfter : {NoHeader}, body : {"object", "null", "invalid"}]
    \cup [status : {401, 403}, retryAfter : {NoHeader}, body : {"object"}]
    \cup [status : {429}, retryAfter : RetryAfterValues, body : {"object"}]

ResponseOk(response) == response.status >= 200 /\ response.status <= 299

\* (variant: 403 is not tested)
IsAuthStatus401Only(code) == code = 401
\* response.status === 401 || response.status === 403
IsAuthStatus(code) == code = 401 \/ code = 403

\* Errors, by the three properties the catch block reads.
NoError == [type |-> "none", name |-> "none", message |-> "", mentionsFetch |-> FALSE]
Undefined == "undefined"
\* _createError(type, message, details)
CreateError(type, message) ==
  [type |-> type, name |-> "Error", message |-> message, mentionsFetch |-> FALSE]
\* What fetch rejects with on a transport failure: TypeError('Failed to fetch').
TransportError ==
  [type |-> Undefined, name |-> "TypeError", message |-> "Failed to fetch",
   mentionsFetch |-> TRUE]
\* What fetch rejects with when controller.abort() is called.
AbortError ==
  [type |-> Undefined, name |-> "AbortError",
   message |-> "The operation was aborted.", mentionsFetch |-> FALSE]
\* response.json() on a body that is not JSON.
SyntaxError ==
  [type |-> Undefined, name |-> "SyntaxError", message |-> "Unexpected token",
   mentionsFetch |-> FALSE]
\* errorData.error on a body that parsed to null.
NullReadError ==
  [type |-> Undefined, name |-> "TypeError",
   message |-> "Cannot read properties of null", mentionsFetch |-> FALSE]

RECURSIVE Pow2(_)
Pow2(n) == IF n = 0 THEN 1 ELSE 2 * Pow2(n - 1)

\* (variant: Math.min(..., maxDelay) is left out)
GetExponentialBackoffUncapped(i, jitter) == BaseDelay * Pow2(i) + jitter
\* (variant: the delay does not depend on the attempt)
GetExponentialBackoffFlat(i, jitter) == BaseDelay + jitter
\* _getExponentialBackoff(attempt), with the jitter drawn
GetExponentialBackoff(i, jitter) == Min(BaseDelay * Pow2(i), MaxDelay) + jitter

\* Attempt indices and Math.random() * 1000 values tried on single calls.
MaxIndex == 6
BackoffJitters == {0, 1, 250, 500, 750, 998, 999}
NoCall == [attempt |-> 0, jitter |-> 0, delay |-> 0]

\* States and instants tried on single calls of _updateRateLimit.
MaxCount == 6
CallTimes == {k * TickMs : k \in 0..MaxTicks}
LimitStates ==
  {NoLimit} \cup [present : {TRUE}, count : 1..MaxCount,
                  resetTime : {k * TickMs : k \in 1..(MaxTicks + 2)}]
NoUpdate == [old |-> NoLimit, at |-> 0, new |-> NoLimit]

InitCalls ==
  /\ backoffCall = NoCall
  /\ backoffPrev = NoCall
  /\ updateCall = NoUpdate
  /\ lengthRead = 0

\* client._getExponentialBackoff(i) is called and returns.
GetExponentialBackoffCall(i, jitter) ==
  /\ backoffPrev' = backoffCall
  /\ backoffCall' = [attempt |-> i, jitter |-> jitter,
                     delay |-> GetExponentialBackoff(i, jitter)]
  /\ UNCHANGED <<qvars, rvars, updateCall, lengthRead>>

\* _updateRateLimit(provider) runs at instant t on a provider whose state is old.
UpdateRateLimitCall(old, t) ==
  /\ updateCall' = [old |-> old, at |-> t, new |-> UpdateRateLimit(old, t)]
  /\ UNCHANGED <<qvars, rvars, backoffCall, backoffPrev, lengthRead>>

NextRateLimit ==
  \E old \in LimitStates, t \in CallTimes : UpdateRateLimitCall(old, t)

NextBackoff ==
  \E i \in 0..MaxIndex, jitter \in BackoffJitters : GetExponentialBackoffCall(i, jitter)

\* The label under which an attempt's end is recorded in last and seen.
ResponseLabel(response) ==
  IF response.status = 429 THEN "429"
  ELSE IF response.status = 401 THEN "401"
  ELSE IF response.status = 403 THEN "403"
  ELSE IF ~ResponseOk(response)
       THEN (IF response.body = "null" THEN "nullBody" ELSE "other")
  ELSE IF response.body = "invalid" THEN "badBody" ELSE "ok"

\* options.retries when the caller passes no options
DefaultRetries == 3

\* Values a field of params may hold; "undefined" also stands for a field
\* that params does not have.
FalsyValues == {"undefined", "null", "empty string", "zero", "false"}
ParamValues == FalsyValues \cup {"text"}
\* The field names generateImage requires, in the order it lists them.
RequiredOfGenerateImage == <<"prompt", "model">>
ParamNames == {"prompt", "model"}
Params == [ParamNames -> ParamValues]

\* (variant: only the first missing name is reported)
MissingFirstOnly(params, required) ==
  LET all == SelectSeq(required, LAMBDA key : params[key] \in FalsyValues)
  IN IF all = <<>> THEN <<>> ELSE <<Head(all)>>
\* required.filter(key => !params[key])
Missing(params, required) ==
  SelectSeq(required, LAMBDA key : params[key] \in FalsyValues)
\* if (missing.length > 0) throw ...
ValidateParamsThrows(params, required) == Len(Missing(params, required)) > 0

NoValidation == [params |-> [key \in ParamNames |-> "undefined"],
                 threw |-> FALSE, missing |-> <<>>]

InitRequest ==
  /\ rpc = "idle"
  /\ retries = 0
  /\ attempt = 0
  /\ lastError = NoError
  /\ timers = {}
  /\ calls = 0
  /\ delays = 0
  /\ lastDelay = 0
  /\ last = "none"
  /\ seen = {}
  /\ thrown = NoError
  /\ hint = NoHeader
  /\ validation = NoValidation

\* One pass of the loop head: arm the timeout timer and call fetch.
BeginAttempt(i) ==
  /\ rpc' = "fetch"
  /\ attempt' = i
  /\ timers' = timers \cup {i}
  /\ calls' = calls + 1

\* _makeRequest(endpoint, data, {retries: r}) is called.
MakeRequest(r) ==
  /\ rpc = "idle"
  /\ retries' = r
  /\ BeginAttempt(0)
  /\ UNCHANGED <<fvars, qvars, validation, lastError, delays, lastDelay, last, seen, thrown, hint>>

\* client.generateImage(params) is called: _validateParams, then the first
\* _makeRequest with the default options.
GenerateImage(params) ==
  /\ rpc = "idle"
  /\ validation' = [params |-> params,
                    threw |-> ValidateParamsThrows(params, RequiredOfGenerateImage),
                    missing |-> Missing(params, RequiredOfGenerateImage)]
  /\ IF ValidateParamsThrows(params, RequiredOfGenerateImage)
     THEN /\ rpc' = "thrown"
          /\ thrown' = CreateError(VALIDATION_ERROR, "Missing required parameters")
          /\ UNCHANGED <<retries, attempt, timers, calls>>
     ELSE /\ retries' = DefaultRetries
          /\ BeginAttempt(0)
          /\ UNCHANGED thrown
  /\ UNCHANGED <<qvars, fvars, lastError, delays, lastDelay, last, seen, hint>>

\* throw error, leaving _makeRequest
Throw(error) ==
  /\ rpc' = "thrown"
  /\ thrown' = error
  /\ UNCHANGED <<attempt, calls, delays, lastDelay>>

\* await this._sleep(ms); continue
Sleep(ms) ==
  /\ rpc' = "sleep"
  /\ delays' = delays + 1
  /\ lastDelay' = TimerDelay(ms)
  /\ UNCHANGED <<attempt, calls, thrown>>

\* (variant: the test reads attempt <= retries)
RetryOrThrowOffByOne(error, jitter) ==
  IF attempt <= retries
  THEN Sleep(GetExponentialBackoff(attempt, jitter))
  ELSE Throw(error)
\* if (attempt < retries) { await this._sleep(backoff); continue; } throw error
RetryOrThrow(error, jitter) ==
  IF attempt < retries
  THEN Sleep(GetExponentialBackoff(attempt, jitter))
  ELSE Throw(error)

\* (variant: without the AbortError branch)
CatchIgnoresAbort(error, jitter) ==
  /\ lastError' = error
  /\ IF error.type = AUTH_ERROR THEN Throw(error)
     ELSE IF error.type = VALIDATION_ERROR THEN Throw(error)
     ELSE IF error.name = "TypeError" /\ error.mentionsFetch
       THEN RetryOrThrow(CreateError(NETWORK_ERROR, "Network error: Failed to fetch"), jitter)
     ELSE IF error.type # Undefined THEN Throw(error)
     ELSE RetryOrThrow(error, jitter)
\* (variant: without `if (error.type) throw error`)
CatchRetriesFormatted(error, jitter) ==
  /\ lastError' = error
  /\ IF error.type = AUTH_ERROR THEN Throw(error)
     ELSE IF error.type = VALIDATION_ERROR THEN Throw(error)
     ELSE IF error.name = "AbortError"
       THEN RetryOrThrow(CreateError(NETWORK_ERROR, "Request timed out"), jitter)
     ELSE IF error.name = "TypeError" /\ error.mentionsFetch
       THEN RetryOrThrow(CreateError(NETWORK_ERROR, "Network error: Failed to fetch"), jitter)
     ELSE RetryOrThrow(error, jitter)
\* The catch block, and for an error it swallows on the last pass the end
\* of the loop and `throw lastError`.
Catch(error, jitter) ==
  /\ lastError' = error
  /\ IF error.type = AUTH_ERROR THEN Throw(error)
     ELSE IF error.type = VALIDATION_ERROR THEN Throw(error)
     ELSE IF error.name = "AbortError"
       THEN RetryOrThrow(CreateError(NETWORK_ERROR, "Request timed out"), jitter)
     ELSE IF error.name = "TypeError" /\ error.mentionsFetch
       THEN RetryOrThrow(CreateError(NETWORK_ERROR, "Network error: Failed to fetch"), jitter)
     ELSE IF error.type # Undefined THEN Throw(error)
     ELSE RetryOrThrow(error, jitter)

\* (variant: the parsed body is not returned and the loop goes on)
ReturnKeepsLooping ==
  /\ rpc' = "sleep"
  /\ UNCHANGED <<attempt, lastError, calls, delays, lastDelay, thrown>>
\* const responseData = await response.json(); return responseData
Return ==
  /\ rpc' = "returned"
  /\ UNCHANGED <<attempt, lastError, calls, delays, lastDelay, thrown>>

\* The try block from the resolution of fetch on.
HandleResponse(response, jitter) ==
  IF response.status = 429
  THEN LET delay == IF Truthy(response.retryAfter)
                    THEN Times(ParseInt(response.retryAfter.text), 1000)
                    ELSE GetExponentialBackoff(attempt, jitter)
       IN IF attempt < retries
          THEN Sleep(delay) /\ UNCHANGED lastError
          ELSE Catch(CreateError(RATE_LIMIT, "Rate limit exceeded"), jitter)
  ELSE IF IsAuthStatus(response.status)
  THEN Catch(CreateError(AUTH_ERROR, "Authentication failed"), jitter)
  ELSE IF ~ResponseOk(response)
  THEN IF response.body = "null"
       THEN Catch(NullReadError, jitter)
       ELSE Catch(CreateError(GENERIC_ERROR, "API error"), jitter)
  ELSE IF response.body = "invalid"
  THEN Catch(SyntaxError, jitter)
  ELSE Return

\* fetch resolves with a response: clearTimeout, then the rest of the try block.
FetchResolves(response, jitter) ==
  /\ rpc = "fetch"
  /\ timers' = timers \ {attempt}
  /\ last' = ResponseLabel(response)
  /\ seen' = seen \cup {ResponseLabel(response)}
  /\ hint' = response.retryAfter
  /\ HandleResponse(response, jitter)
  /\ UNCHANGED <<fvars, qvars, validation, retries>>

\* fetch rejects with a transport failure; the timer stays armed.
FetchRejects(jitter) ==
  /\ rpc = "fetch"
  /\ last' = "transport"
  /\ seen' = seen \cup {"transport"}
  /\ Catch(TransportError, jitter)
  /\ UNCHANGED <<fvars, qvars, validation, retries, timers, hint>>

\* The timeout timer of attempt i fires: controller.abort(). The pending
\* fetch of that attempt rejects with an AbortError; a settled one ignores it.
TimerFires(i, jitter) ==
  /\ i \in timers
  /\ timers' = timers \ {i}
  /\ IF rpc = "fetch" /\ attempt = i
     THEN /\ last' = "timeout"
          /\ seen' = seen \cup {"timeout"}
          /\ Catch(AbortError, jitter)
     ELSE UNCHANGED <<rpc, attempt, lastError, calls, delays, lastDelay,
                      last, seen, thrown>>
  /\ UNCHANGED <<fvars, qvars, validation, retries, hint>>

\* The backoff delay is over: continue, attempt++, and the next pass if
\* attempt <= retries; otherwise the loop ends and lastError is thrown.
SleepDone ==
  /\ rpc = "sleep"
  /\ IF attempt + 1 <= retries
     THEN /\ BeginAttempt(attempt + 1)
          /\ UNCHANGED thrown
     ELSE /\ rpc' = "thrown"
          /\ thrown' = lastError
          /\ UNCHANGED <<attempt, timers, calls>>
  /\ UNCHANGED <<fvars, qvars, validation, retries, lastError, delays, lastDelay, last, seen, hint>>

NextRequest ==
  \/ \E r \in 0..MaxRetries : MakeRequest(r)
  \/ \E params \in Params : GenerateImage(params)
  \/ \E response \in Responses, jitter \in Jitters : FetchResolves(response, jitter)
  \/ \E jitter \in Jitters : FetchRejects(jitter)
  \/ \E i \in timers, jitter \in Jitters : TimerFires(i, jitter)
  \/ SleepDone

\* ----------------------------------------------------------- specifications
\* ------------------------------------------------------ _makeRequest claims
Retryable429 == {"429"}
RetryableNetwork == {"transport", "timeout"}

\* C6 as stated: whenever AUTH_ERROR is thrown, exactly one network call has
\* been made and no delay has been waited.
C6_AuthAfterExactlyOneCall ==
  (rpc = "thrown" /\ thrown.type = AUTH_ERROR) => (calls = 1 /\ delays = 0)

\* C6 as amended: a 401 or 403 response makes _makeRequest throw AUTH_ERROR at
\* once, with no call and no delay after it: the calls made are those up to
\* this attempt, one delay between consecutive ones; it is exactly one call
\* and no delay when no retried attempt came before.
C6_AuthThrownAtOnce ==
  last \in {"401", "403"} =>
    /\ rpc = "thrown"
    /\ thrown.type = AUTH_ERROR
    /\ calls = attempt + 1
    /\ delays = attempt
    /\ seen \subseteq {"401", "403"} => (calls = 1 /\ delays = 0)

\* A 403 answered the first call under the largest budget.
C6_Witness ==
  /\ rpc = "thrown" /\ last = "403"
  /\ retries = MaxRetries /\ calls = 1

\* C7: when every attempt ended in 429, or every attempt ended in a transport
\* failure or a timeout, the invocation ends only by a throw after retries+1
\* calls and retries delays, of kind RATE_LIMIT resp. NETWORK_ERROR.
C7_ExhaustedRetries ==
  /\ (seen # {} /\ (seen \subseteq Retryable429 \/ seen \subseteq RetryableNetwork)) =>
       /\ rpc # "returned"
       /\ calls <= retries + 1
       /\ rpc = "sleep" => delays = calls
       /\ rpc = "fetch" => delays = calls - 1
       /\ rpc = "thrown" => (calls = retries + 1 /\ delays = retries)
  /\ (rpc = "thrown" /\ seen = Retryable429) => thrown.type = RATE_LIMIT
  /\ (rpc = "thrown" /\ seen # {} /\ seen \subseteq RetryableNetwork) =>
       thrown.type = NETWORK_ERROR

\* Transport failures and timeouts used up the largest budget.
C7_Witness ==
  /\ rpc = "thrown" /\ seen = RetryableNetwork
  /\ retries = MaxRetries /\ calls = MaxRetries + 1

C10_ThrownIsClassified ==
  rpc = "thrown" => thrown.type \in ErrorKinds

\* What a retry-after value asks for: a delta-seconds value asks for that
\* many seconds, an HTTP-date for the time until that date.
IsDeltaSeconds(text) == text # <<>> /\ \A k \in 1..Len(text) : IsDigit(text[k])

\* C14: while _makeRequest waits after a 429 with attempts remaining, the
\* delay is the retry-after hint in seconds when the response carried one
\* (a positive wait when the hint is a date ahead), and the exponential
\* backoff for the attempt index when it carried none.
C14_DelayIsHintOrBackoff ==
  (rpc = "sleep" /\ last = "429") =>
    IF Truthy(hint)
    THEN IF IsDeltaSeconds(hint.text)
         THEN lastDelay = ParseDigits(hint.text, 0) * 1000
         ELSE lastDelay > 0
    ELSE \E jitter \in Jitters : lastDelay = GetExponentialBackoff(attempt, jitter)

\* The part of C14 that holds: a delta-seconds hint or no hint.
C14_DeltaSecondsOrBackoff ==
  (rpc = "sleep" /\ last = "429" /\ (Truthy(hint) => IsDeltaSeconds(hint.text))) =>
    IF Truthy(hint)
    THEN lastDelay = ParseDigits(hint.text, 0) * 1000
    ELSE \E jitter \in Jitters : lastDelay = GetExponentialBackoff(attempt, jitter)

\* C15: an attempt whose fetch is pending when its timeout timer fires ends
\* as a timeout: with attempts remaining _makeRequest waits the backoff delay
\* of that attempt's index and then issues the next attempt, and with none
\* remaining it throws NETWORK_ERROR with the message 'Request timed out'.
C15_TimeoutRetriedThenThrown ==
  /\ last = "timeout" => rpc \in {"sleep", "fetch", "thrown"}
  /\ (last = "timeout" /\ rpc = "sleep") =>
       /\ attempt < retries
       /\ attempt \notin timers
       /\ \E jitter \in Jitters : lastDelay = GetExponentialBackoff(attempt, jitter)
  /\ (last = "timeout" /\ rpc = "fetch") =>
       /\ attempt >= 1 /\ attempt <= retries
       /\ calls = attempt + 1
  /\ (last = "timeout" /\ rpc = "thrown") =>
       /\ attempt = retries
       /\ calls = retries + 1
       /\ thrown.type = NETWORK_ERROR
       /\ thrown.message = "Request timed out"

\* Every attempt of the largest budget timed out.
C15_Witness ==
  /\ rpc = "thrown" /\ seen = {"timeout"}
  /\ retries = MaxRetries /\ calls = MaxRetries + 1
  /\ thrown.message = "Request timed out"

\* min(baseDelay * 2^i, maxDelay), the part of a delay that is not jitter
Capped(i) == Min(BaseDelay * Pow2(i), MaxDelay)

\* C16: every delay _getExponentialBackoff(i) returns lies in
\* [min(1000*2^i, 30000), min(1000*2^i, 30000) + 1000] and so never exceeds
\* maxDelay + jitterSpan = 31000 ms.
C16_BackoffWithinBounds ==
  backoffCall # NoCall =>
    /\ backoffCall.delay >= Capped(backoffCall.attempt)
    /\ backoffCall.delay <= Capped(backoffCall.attempt) + JitterSpan
    /\ backoffCall.delay <= MaxDelay + JitterSpan

\* A call past the cap with the largest jitter.
C16_Witness ==
  /\ backoffCall.attempt = MaxIndex
  /\ backoffCall.jitter = 999
  /\ backoffCall.delay = MaxDelay + 999

\* C17: of two calls with indices i and i+1 where 1000*2^i < 30000, the
\* second returns strictly more than the first whatever the two jitters;
\* and the jitter-free part of the delay never decreases from i to i+1.
C17_BackoffGrowsToCap ==
  (backoffPrev # NoCall /\ backoffCall.attempt = backoffPrev.attempt + 1) =>
    /\ BaseDelay * Pow2(backoffPrev.attempt) < MaxDelay =>
         backoffCall.delay > backoffPrev.delay
    /\ backoffCall.delay - backoffCall.jitter
         >= backoffPrev.delay - backoffPrev.jitter

\* Index 4 with the largest jitter, then index 5 (capped) with none.
C17_Witness ==
  /\ backoffPrev.attempt = 4 /\ backoffPrev.jitter = 999
  /\ backoffCall.attempt = 5 /\ backoffCall.jitter = 0
  /\ backoffCall.delay = MaxDelay

Validated == validation # NoValidation
Listed(key) == \E k \in 1..Len(validation.missing) : validation.missing[k] = key
Absent(key) == validation.params[key] = "undefined"
Unusable(key) == validation.params[key] \in FalsyValues

\* C18 as stated: generateImage throws VALIDATION_ERROR exactly when a
\* required field is missing from params, details.missing lists exactly the
\* missing ones, and a validation failure comes before any network call.
C18_MissingFieldsListed ==
  Validated =>
    /\ validation.threw <=> \E key \in ParamNames : Absent(key)
    /\ validation.threw => \A key \in ParamNames : Listed(key) <=> Absent(key)
    /\ validation.threw =>
         /\ rpc = "thrown" /\ thrown.type = VALIDATION_ERROR
         /\ calls = 0 /\ delays = 0 /\ timers = {}

\* C18 as amended: generateImage throws VALIDATION_ERROR exactly when a
\* required field is absent from params or holds a falsy value (undefined,
\* null, '', 0, false); details.missing lists exactly those fields, in the
\* order required; nothing is thrown by the validation when every required
\* field holds a truthy value; and a validation failure comes before any
\* network call and is not retried.
C18_FalsyFieldsListed ==
  Validated =>
    /\ validation.threw <=> \E key \in ParamNames : Unusable(key)
    /\ \A key \in ParamNames : Listed(key) <=> Unusable(key)
    /\ Len(validation.missing) = Cardinality({key \in ParamNames : Unusable(key)})
    /\ (Listed("prompt") /\ Listed("model")) => validation.missing[1] = "prompt"
    /\ validation.threw =>
         /\ rpc = "thrown" /\ thrown.type = VALIDATION_ERROR
         /\ calls = 0 /\ delays = 0 /\ timers = {}
    /\ ~validation.threw =>
         /\ calls >= 1
         /\ rpc = "thrown" => thrown.type # VALIDATION_ERROR

\* Both fields are unusable, one absent and one an empty string.
C18_Witness ==
  /\ validation.threw
  /\ validation.params["prompt"] = "empty string"
  /\ validation.params["model"] = "undefined"
  /\ validation.missing = <<"prompt", "model">>
  /\ rpc = "thrown" /\ calls = 0

\* C20: _updateRateLimit at instant now sets the provider's state to
\* (count 1, resetTime now + 60 s) when it had no state or now >= resetTime,
\* and otherwise keeps resetTime and adds exactly one to count.
C20_UpdateOpensOrCounts ==
  updateCall # NoUpdate =>
    IF ~updateCall.old.present \/ updateCall.at >= updateCall.old.resetTime
    THEN /\ updateCall.new.present
         /\ updateCall.new.count = 1
         /\ updateCall.new.resetTime = updateCall.at + WindowMs
    ELSE /\ updateCall.new.present
         /\ updateCall.new.resetTime = updateCall.old.resetTime
         /\ updateCall.new.count = updateCall.old.count + 1

\* A success inside an open window that already counted MaxCount successes.
C20_Witness ==
  /\ updateCall.old.present
  /\ updateCall.old.count = MaxCount
  /\ updateCall.at < updateCall.old.resetTime
  /\ updateCall.new.count = MaxCount + 1

\* C24: a timeout timer is armed only for the attempt whose fetch is
\* pending: once an attempt's network call has settled, fulfilled or
\* rejected, its timer is no longer armed.
C24_TimerClearedOnCompletion ==
  \A i \in timers : rpc = "fetch" /\ attempt = i

Ended == rpc \in {"returned", "thrown"}

\* C29: one invocation issues at most retries+1 network calls, waits a delay
\* only when another attempt follows, and once called always ends, by a
\* return or a throw.
C29_BoundedAndTerminates ==
  /\ [](/\ calls <= retries + 1
        /\ delays <= retries
        /\ rpc = "sleep" => (attempt < retries /\ delays = calls)
        /\ Ended => delays <= calls)
  /\ (rpc = "fetch") ~> Ended

\* The last attempt of the largest budget succeeded.
C29_Witness ==
  /\ rpc = "returned" /\ retries = MaxRetries
  /\ calls = MaxRetries + 1 /\ delays = MaxRetries

\* Both components after construction, nothing submitted and nothing called.
Init == InitQueue /\ InitRequest /\ InitCalls

\* The queue manager alone, and one _makeRequest call alone.
SpecQueue == Init /\ [][NextQueue]_vars
SpecRequest == Init /\ [][NextRequest]_vars

\* The queue manager and readers of its length.
SpecQueueRead == Init /\ [][NextQueueRead]_vars

\* Calls of _getExponentialBackoff alone.
SpecBackoff == Init /\ [][NextBackoff]_vars

\* Calls of _updateRateLimit alone.
SpecRateLimit == Init /\ [][NextRateLimit]_vars

\* The queue manager on an event loop that runs every timer callback and
\* promise continuation that is due.
SpecQueueFair ==
  /\ SpecQueue
  /\ WF_vars(\E inv \in active : Execute(inv))
  /\ WF_vars(\E inv \in active : WaitDone(inv))

\* The queue manager with a running clock, operations that all settle, and
\* no operation that fails with RATE_LIMIT for ever.
SpecQueueLive ==
  /\ SpecQueue
  /\ WF_vars(Tick)
  /\ WF_vars(\E inv \in active : Execute(inv))
  /\ WF_vars(\E inv \in active : WaitDone(inv))
  /\ WF_vars(\E inv \in active :
               ExecuteSucceeds(inv) \/ \E error \in OpFailures : ExecuteFails(inv, error))
  /\ SF_vars(\E inv \in active :
               ExecuteSucceeds(inv)
                 \/ \E error \in OpFailures \ {RATE_LIMIT} : ExecuteFails(inv, error))

\* One _makeRequest call whose pending attempt always ends (the fetch
\* settles or the timeout timer fires) and whose _sleep timers fire.
SpecRequestFair ==
  /\ SpecRequest
  /\ WF_vars(SleepDone)
  /\ WF_vars(\/ \E response \in Responses, jitter \in Jitters : FetchResolves(response, jitter)
             \/ \E jitter \in Jitters : FetchRejects(jitter)
             \/ \E jitter \in Jitters : rpc = "fetch" /\ TimerFires(attempt, jitter))

====
